---- MODULE Spec2Model ----
(***************************************************************************)
(* warden-worker: the vault item (Cipher) handlers, the bulk import and    *)
(* the wire encoding of a Cipher, as a state machine over the D1 tables    *)
(* `folders` and `ciphers`.                                                *)
(*                                                                         *)
(* Requests are served one after the other.  A single-item handler is one  *)
(* step.  import_data is several steps, one per database call it awaits:   *)
(* ImportStart, then one ExecChunk/ExecChunkFail per db.batch() of the     *)
(* folder statements, FoldersDone (lines 86-153), one step per db.batch()  *)
(* of the cipher statements, and ImportDone.                               *)
(*                                                                         *)
(* Spec       any sequence of create, update, delete and import requests   *)
(*            of two users;                                                *)
(* SpecImport one import into an empty vault, and its resubmissions;       *)
(* SpecBatch  execute_in_batches on up to MaxOps statements;               *)
(* SpecCodec  the encoding of one stored row.                              *)
(*                                                                         *)
(* Option::None and JSON null are the string NULL.  JSON scalars are kept  *)
(* as their JSON text ("0", "0.0", "true"); opaque client blobs (login,    *)
(* card, ...) are tokens.  A timestamp is the clock value in milliseconds, *)
(* the precision of the "%.3f" format the handlers use.                    *)
(***************************************************************************)
EXTENDS Integers, Sequences, FiniteSets, TLC

VARIABLES
    db,         \* [folders, ciphers]: the rows of the two D1 tables
    clock,      \* Utc::now(), in milliseconds
    uuid,       \* number of Uuid::new_v4() values drawn so far
    pc,         \* "idle", or the await point import_data is at: "folders", "ciphers"
    req,        \* the request being served (the last one served, when idle)
    stmts,      \* `statements` of the running execute_in_batches call
    k,          \* number of db.batch() calls that call has completed
    batchLog,   \* history: every db.batch() call of the request, in order
    db0,        \* history: db when the request arrived
    chain,      \* history: results of the submissions of the current import batch
    lastResult  \* the handler's return value: [status, body]

vars == <<db, clock, uuid, pc, req, stmts, k, batchLog, db0, chain, lastResult>>

NULL == "null"

\* ------------------------------------------------------------------ bounds
MaxClock == 3       \* requests that read the clock, per behaviour
MaxId == 2          \* cipher ids an update or delete request may name (Spec)
MaxFolders == 2     \* folders of an import payload (SpecImport)
MaxItems == 2       \* items of an import payload (SpecImport)
MaxRels == 2        \* folderRelationships of an import payload (SpecImport)
MaxRetries == 1     \* resubmissions of an import batch (SpecImport)
MaxOps == 5         \* statements handed to execute_in_batches (SpecBatch)
MaxBatchSize == 3   \* largest IMPORT_BATCH_SIZE tried (SpecBatch)

DefaultBatchSize == 30

Users == {"u1", "u2"}

Min(a, b) == IF a < b THEN a ELSE b

\* Sequences over S of length at most n.
SeqUpTo(S, n) == UNION {[1..m -> S] : m \in 0..n}

\* ------------------------------------------------------------- the tables
EmptyDb == [folders |-> {}, ciphers |-> {}]

\* INSERT [OR IGNORE] INTO <table>: `id` is the primary key of both tables.
\* A plain INSERT of a present id is a constraint error (ok = FALSE).
InsertRow(d, s) ==
    IF \E r \in d[s.table] : r.id = s.row.id
    THEN [db |-> d, ok |-> s.or_ignore]
    ELSE [db |-> [d EXCEPT ![s.table] = @ \cup {s.row}], ok |-> TRUE]

\* db.batch(statements): the statements in order, as one transaction.
RECURSIVE ApplyBatch(_, _)
ApplyBatch(d, ss) ==
    IF ss = <<>> THEN [db |-> d, ok |-> TRUE]
    ELSE LET r == InsertRow(d, Head(ss))
         IN  IF r.ok THEN ApplyBatch(r.db, Tail(ss)) ELSE [db |-> d, ok |-> FALSE]

\* ----------------------------------------------------------- models/cipher
\* serde_json::to_value(&CipherData): camelCase keys, None fields skipped.
CipherDataKeys ==
    <<"name", "notes", "login", "card", "identity", "secureNote", "fields",
      "passwordHistory", "reprompt">>

CipherData(r) ==
    [name |-> r.name, notes |-> r.notes, login |-> r.login, card |-> r.card,
     identity |-> r.identity, secureNote |-> r.secure_note, fields |-> r.fields,
     passwordHistory |-> r.password_history, reprompt |-> r.reprompt]

to_value(cd) ==
    LET keep == {key \in {CipherDataKeys[i] : i \in 1..Len(CipherDataKeys)} :
                    key = "name" \/ cd[key] # NULL}
    IN  [t |-> "Object", o |-> [key \in keep |-> cd[key]]]

\* serde_json::from_str(&row.data).unwrap_or_default()
from_str(text) == IF text.t = "Object" THEN text ELSE [t |-> "Null"]

BoolToInt(b) == IF b THEN 1 ELSE 0

\* impl Into<Cipher> for CipherDBModel
IntoCipher(row) ==
    [id |-> row.id, user_id |-> row.user_id, organization_id |-> row.organization_id,
     type |-> row.type, data |-> from_str(row.data),
     favorite |-> (row.favorite # 0),
     folder_id |-> row.folder_id, deleted_at |-> row.deleted_at,
     created_at |-> row.created_at, updated_at |-> row.updated_at,
     object |-> "default_object", organization_use_totp |-> FALSE, edit |-> TRUE,
     view_password |-> TRUE, collection_ids |-> NULL]

\* data_clone.get(key).cloned().unwrap_or(dflt)
GetOr(o, key, dflt) == IF key \in DOMAIN o THEN o[key] ELSE dflt

\* Fault: the four sub-objects are copied whatever the type.
Mutant_SerializeData_AllSubObjects(c) ==
    IF c.data.t = "Object"
    THEN LET o == c.data.o
         IN  [name |-> GetOr(o, "name", NULL),
              notes |-> GetOr(o, "notes", NULL),
              fields |-> GetOr(o, "fields", NULL),
              passwordHistory |-> GetOr(o, "passwordHistory", NULL),
              reprompt |-> GetOr(o, "reprompt", "0.0"),
              login |-> GetOr(o, "login", NULL),
              secureNote |-> GetOr(o, "secureNote", NULL),
              card |-> GetOr(o, "card", NULL),
              identity |-> GetOr(o, "identity", NULL)]
    ELSE [name |-> NULL, notes |-> NULL, fields |-> NULL, passwordHistory |-> NULL,
          reprompt |-> NULL, login |-> NULL, secureNote |-> NULL, card |-> NULL,
          identity |-> NULL]

\* The payload-derived part of Cipher::serialize.
SerializeData(c) ==
    IF c.data.t = "Object"
    THEN LET o == c.data.o
         IN  [name |-> GetOr(o, "name", NULL),
              notes |-> GetOr(o, "notes", NULL),
              fields |-> GetOr(o, "fields", NULL),
              passwordHistory |-> GetOr(o, "passwordHistory", NULL),
              reprompt |-> GetOr(o, "reprompt", "0.0"),
              login |-> IF c.type = 1 THEN GetOr(o, "login", NULL) ELSE NULL,
              secureNote |-> IF c.type = 2 THEN GetOr(o, "secureNote", NULL) ELSE NULL,
              card |-> IF c.type = 3 THEN GetOr(o, "card", NULL) ELSE NULL,
              identity |-> IF c.type = 4 THEN GetOr(o, "identity", NULL) ELSE NULL]
    ELSE [name |-> NULL, notes |-> NULL, fields |-> NULL, passwordHistory |-> NULL,
          reprompt |-> NULL, login |-> NULL, secureNote |-> NULL, card |-> NULL,
          identity |-> NULL]

\* impl Serialize for Cipher: the JSON object sent to the client.
Serialize(c) ==
    LET head ==
            [object |-> c.object, id |-> c.id,
             organizationId |-> c.organization_id, folderId |-> c.folder_id,
             type |-> c.type, favorite |-> c.favorite, edit |-> c.edit,
             viewPassword |-> c.view_password,
             permissions |-> [delete |-> c.edit, restore |-> c.edit],
             organizationUseTotp |-> c.organization_use_totp,
             collectionIds |-> c.collection_ids,
             revisionDate |-> c.updated_at, creationDate |-> c.created_at,
             deletedDate |-> c.deleted_at]
        user == IF c.user_id # NULL THEN [userId |-> c.user_id] ELSE <<>>
    IN  head @@ user @@ SerializeData(c)

\* The row the handlers bind to INSERT INTO ciphers.
CipherRow(c) ==
    [id |-> c.id, user_id |-> c.user_id, organization_id |-> c.organization_id,
     type |-> c.type, data |-> c.data, favorite |-> BoolToInt(c.favorite),
     folder_id |-> c.folder_id, deleted_at |-> NULL,
     created_at |-> c.created_at, updated_at |-> c.updated_at]

\* The Cipher the create and import handlers build from a request payload.
NewCipher(id, sub, r, now, collection_ids) ==
    [id |-> id, user_id |-> sub, organization_id |-> r.organization_id,
     type |-> r.type, data |-> to_value(CipherData(r)), favorite |-> r.favorite,
     folder_id |-> r.folder_id, deleted_at |-> NULL,
     created_at |-> now, updated_at |-> now,
     object |-> "cipher", organization_use_totp |-> FALSE, edit |-> TRUE,
     view_password |-> TRUE, collection_ids |-> collection_ids]

\* ------------------------------------------------------------- handlers/import
\* str::parse::<usize> on the decimal texts the model uses; anything else fails.
UsizeText == <<"0", "1", "2", "3", "4", "5", "6">>

ParseUsize(text) ==
    IF \E i \in DOMAIN UsizeText : UsizeText[i] = text
    THEN [ok |-> TRUE, value |-> (CHOOSE i \in DOMAIN UsizeText : UsizeText[i] = text) - 1]
    ELSE [ok |-> FALSE, value |-> 0]

\* get_batch_size: IMPORT_BATCH_SIZE parsed as usize, 30 when unset (NULL) or
\* invalid.
get_batch_size(envv) ==
    IF envv # NULL /\ ParseUsize(envv).ok THEN ParseUsize(envv).value
    ELSE DefaultBatchSize

\* Vec::get / Vec::get_mut with a zero-based usize index.
InRange(i, s) == i + 1 \in DOMAIN s

\* chunks_exact in place of chunks: a trailing short chunk is dropped.
RECURSIVE Mutant_Chunks_Exact(_, _)
Mutant_Chunks_Exact(s, size) ==
    IF Len(s) < size THEN <<>>
    ELSE <<SubSeq(s, 1, size)>> \o Mutant_Chunks_Exact(SubSeq(s, size + 1, Len(s)), size)

\* statements.chunks(batch_size), batch_size > 0.
RECURSIVE Chunks(_, _)
Chunks(s, size) ==
    IF s = <<>> THEN <<>>
    ELSE LET n == Min(size, Len(s))
         IN  <<SubSeq(s, 1, n)>> \o Chunks(SubSeq(s, n + 1, Len(s)), size)

\* Fault: a batch_size of 0 is treated as 1, one db.batch() per statement.
Mutant_Batches_ZeroAsOne(s, batch_size) ==
    IF s = <<>> THEN <<>>
    ELSE Chunks(s, IF batch_size = 0 THEN 1 ELSE batch_size)

\* The db.batch() calls execute_in_batches makes, in order.
Batches(s, batch_size) ==
    IF s = <<>> THEN <<>>
    ELSE IF batch_size = 0 THEN <<s>>
    ELSE Chunks(s, batch_size)

\* Lines 60-81: one INSERT OR IGNORE per folder of the payload, keyed by the
\* id the client sent.
FolderStatements(sub, folders, now) ==
    [i \in DOMAIN folders |->
        [table |-> "folders", or_ignore |-> TRUE,
         row |-> [id |-> folders[i].id, user_id |-> sub, name |-> folders[i].name,
                  created_at |-> now, updated_at |-> now]]]

\* Faults of the relationship loop: the first relationship of an item wins; an
\* out-of-range folder index clears folder_id.
RECURSIVE ProcessRelationshipsFirstWins(_, _, _, _)
ProcessRelationshipsFirstWins(cs, fs, rels, seen) ==
    IF rels = <<>> THEN cs
    ELSE LET r == Head(rels)
             hit == InRange(r.key, cs) /\ InRange(r.value, fs) /\ r.key \notin seen
         IN  ProcessRelationshipsFirstWins(
                 IF hit THEN [cs EXCEPT ![r.key + 1].folder_id = fs[r.value + 1].id]
                 ELSE cs,
                 fs, Tail(rels), IF hit THEN seen \cup {r.key} ELSE seen)

RECURSIVE ProcessRelationshipsClearing(_, _, _)
ProcessRelationshipsClearing(cs, fs, rels) ==
    IF rels = <<>> THEN cs
    ELSE LET r == Head(rels)
         IN  ProcessRelationshipsClearing(
                 IF InRange(r.key, cs)
                 THEN [cs EXCEPT ![r.key + 1].folder_id =
                          IF InRange(r.value, fs) THEN fs[r.value + 1].id ELSE NULL]
                 ELSE cs,
                 fs, Tail(rels))

Mutant_ProcessRelationships_FirstWins(cs, fs, rels) ==
    ProcessRelationshipsFirstWins(cs, fs, rels, {})

Mutant_ProcessRelationships_Clearing(cs, fs, rels) ==
    ProcessRelationshipsClearing(cs, fs, rels)

\* Lines 87-93: the relationships in order, each overwriting folder_id.
RECURSIVE ProcessRelationshipsLoop(_, _, _)
ProcessRelationshipsLoop(cs, fs, rels) ==
    IF rels = <<>> THEN cs
    ELSE LET r == Head(rels)
         IN  ProcessRelationshipsLoop(
                 IF InRange(r.key, cs) /\ InRange(r.value, fs)
                 THEN [cs EXCEPT ![r.key + 1].folder_id = fs[r.value + 1].id]
                 ELSE cs,
                 fs, Tail(rels))

ProcessRelationships(cs, fs, rels) == ProcessRelationshipsLoop(cs, fs, rels)

\* Fault: the loop stops at the first item encrypted for another user and the
\* statements prepared so far are executed.
RECURSIVE Mutant_PrepareCiphers_KeepsPreceding(_, _, _, _)
Mutant_PrepareCiphers_KeepsPreceding(sub, cs, now, u) ==
    IF cs = <<>> \/ Head(cs).encrypted_for # sub
    THEN [ok |-> TRUE, stmts |-> <<>>, used |-> 0]
    ELSE LET rest == Mutant_PrepareCiphers_KeepsPreceding(sub, Tail(cs), now, u + 1)
             stmt == [table |-> "ciphers", or_ignore |-> TRUE,
                      row |-> CipherRow(NewCipher(u + 1, sub, Head(cs), now, NULL))]
         IN  [ok |-> TRUE, stmts |-> <<stmt>> \o rest.stmts, used |-> 1 + rest.used]

\* Lines 98-153: the ownership check and the INSERT OR IGNORE of each item, in
\* input order; the first item encrypted for another user ends the request.
\* `used` counts the ids drawn.
RECURSIVE PrepareCiphers(_, _, _, _)
PrepareCiphers(sub, cs, now, u) ==
    IF cs = <<>> THEN [ok |-> TRUE, stmts |-> <<>>, used |-> 0]
    ELSE IF Head(cs).encrypted_for # sub THEN [ok |-> FALSE, stmts |-> <<>>, used |-> 0]
    ELSE LET rest == PrepareCiphers(sub, Tail(cs), now, u + 1)
             stmt == [table |-> "ciphers", or_ignore |-> TRUE,
                      row |-> CipherRow(NewCipher(u + 1, sub, Head(cs), now, NULL))]
         IN  [ok |-> rest.ok, stmts |-> <<stmt>> \o rest.stmts, used |-> 1 + rest.used]

Result(status, body) == [status |-> status, body |-> body]

\* import_data up to its first await: lines 52-81.
BeginImport(sub, payload, envv) ==
    /\ pc = "idle"
    /\ clock < MaxClock
    /\ req' = [op |-> "import", sub |-> sub, payload |-> payload, envv |-> envv,
               batch_size |-> get_batch_size(envv), now |-> clock]
    /\ clock' = clock + 1
    /\ stmts' = FolderStatements(sub, payload.folders, clock)
    /\ k' = 0
    /\ batchLog' = <<>>
    /\ db0' = db
    /\ pc' = "folders"
    /\ lastResult' = Result("Pending", NULL)
    /\ UNCHANGED <<db, uuid>>

ImportStart(sub, payload, envv) ==
    /\ BeginImport(sub, payload, envv)
    /\ chain' = <<>>

\* The client submits the batch it imported last once more.
ImportRetry ==
    /\ req.op = "import"
    /\ Len(chain) \in 1..MaxRetries
    /\ BeginImport(req.sub, req.payload, req.envv)
    /\ UNCHANGED chain

PendingBatches == Batches(stmts, req.batch_size)

\* One db.batch(chunk).await that succeeds.
ExecChunk ==
    /\ pc \in {"folders", "ciphers"}
    /\ k < Len(PendingBatches)
    /\ LET chunk == PendingBatches[k + 1]
           r == ApplyBatch(db, chunk)
       IN  /\ r.ok
           /\ db' = r.db
           /\ batchLog' = Append(batchLog, [phase |-> pc, ops |-> chunk, ok |-> TRUE])
    /\ k' = k + 1
    /\ UNCHANGED <<clock, uuid, pc, req, stmts, db0, chain, lastResult>>

\* Fault: the error of db.batch() is dropped and the loop goes on.
Mutant_ExecChunkFail_Swallowed ==
    /\ pc \in {"folders", "ciphers"}
    /\ k < Len(PendingBatches)
    /\ batchLog' = Append(batchLog, [phase |-> pc, ops |-> PendingBatches[k + 1],
                                     ok |-> FALSE])
    /\ k' = k + 1
    /\ UNCHANGED <<db, clock, uuid, pc, req, stmts, db0, chain, lastResult>>

\* One db.batch(chunk).await that fails: the transaction is rolled back and `?`
\* returns the error from execute_in_batches and from import_data.
ExecChunkFail ==
    /\ pc \in {"folders", "ciphers"}
    /\ k < Len(PendingBatches)
    /\ batchLog' = Append(batchLog, [phase |-> pc, ops |-> PendingBatches[k + 1],
                                     ok |-> FALSE])
    /\ pc' = "idle"
    /\ lastResult' = Result("StorageError", NULL)
    /\ chain' = Append(chain, "StorageError")
    /\ UNCHANGED <<db, clock, uuid, req, stmts, k, db0>>

\* execute_in_batches of the folder statements returned Ok: lines 86-153.
FoldersDone ==
    /\ pc = "folders"
    /\ k = Len(PendingBatches)
    /\ LET cs == ProcessRelationships(req.payload.ciphers, req.payload.folders,
                                      req.payload.folder_relationships)
           prep == PrepareCiphers(req.sub, cs, req.now, uuid)
       IN  /\ uuid' = uuid + prep.used
           /\ IF prep.ok
              THEN /\ stmts' = prep.stmts
                   /\ k' = 0
                   /\ pc' = "ciphers"
                   /\ UNCHANGED <<chain, lastResult>>
              ELSE /\ pc' = "idle"
                   /\ lastResult' = Result("BadRequest", NULL)
                   /\ chain' = Append(chain, "BadRequest")
                   /\ UNCHANGED <<stmts, k>>
    /\ UNCHANGED <<db, clock, req, batchLog, db0>>

\* execute_in_batches of the cipher statements returned Ok: line 158.
ImportDone ==
    /\ pc = "ciphers"
    /\ k = Len(PendingBatches)
    /\ pc' = "idle"
    /\ lastResult' = Result("Ok", NULL)
    /\ chain' = Append(chain, "Ok")
    /\ UNCHANGED <<db, clock, uuid, req, stmts, k, batchLog, db0>>

\* ------------------------------------------------------------ handlers/ciphers
InsertCipher(c) == [table |-> "ciphers", or_ignore |-> FALSE, row |-> CipherRow(c)]

\* SELECT * FROM ciphers WHERE id = ?1 AND user_id = ?2
SelectCipher(ciphers, id, sub) == {c \in ciphers : c.id = id /\ c.user_id = sub}

\* Fault: the UPDATE also sets created_at.
Mutant_UpdateRows_TouchesCreatedAt(ciphers, id, sub, c) ==
    {IF row.id = id /\ row.user_id = sub
     THEN [row EXCEPT !.organization_id = c.organization_id, !.type = c.type,
                      !.data = c.data, !.favorite = BoolToInt(c.favorite),
                      !.folder_id = c.folder_id, !.created_at = c.updated_at,
                      !.updated_at = c.updated_at]
     ELSE row : row \in ciphers}

\* UPDATE ciphers SET organization_id, type, data, favorite, folder_id,
\* updated_at WHERE id = ?7 AND user_id = ?8
UpdateRows(ciphers, id, sub, c) ==
    {IF row.id = id /\ row.user_id = sub
     THEN [row EXCEPT !.organization_id = c.organization_id, !.type = c.type,
                      !.data = c.data, !.favorite = BoolToInt(c.favorite),
                      !.folder_id = c.folder_id, !.updated_at = c.updated_at]
     ELSE row : row \in ciphers}

\* Fault: the DELETE is not scoped by user_id.
Mutant_DeleteRows_AnyOwner(ciphers, id, sub) == {row \in ciphers : row.id # id}

\* DELETE FROM ciphers WHERE id = ?1 AND user_id = ?2
DeleteRows(ciphers, id, sub) == {row \in ciphers : ~(row.id = id /\ row.user_id = sub)}

\* The common body of create_cipher and create_cipher_simple; `fails` is a
\* failure of the storage call.
Create(op, sub, r, collection_ids, fails) ==
    /\ pc = "idle"
    /\ clock < MaxClock
    /\ LET cipher == NewCipher(uuid + 1, sub, r, clock, collection_ids)
           ins == InsertRow(db, InsertCipher(cipher))
       IN  IF fails \/ ~ins.ok
           THEN /\ lastResult' = Result("StorageError", NULL)
                /\ UNCHANGED db
           ELSE /\ lastResult' = Result("Ok", Serialize(cipher))
                /\ db' = ins.db
    /\ req' = [op |-> op, sub |-> sub, payload |-> r, now |-> clock]
    /\ clock' = clock + 1
    /\ uuid' = uuid + 1
    /\ db0' = db
    /\ batchLog' = <<>>
    /\ UNCHANGED <<pc, stmts, k, chain>>

\* POST /api/ciphers/create: {cipher, collectionIds}
create_cipher(sub, payload, fails) ==
    Create("create", sub, payload.cipher,
           IF payload.collection_ids = <<>> THEN NULL ELSE payload.collection_ids,
           fails)

\* POST /api/ciphers: the flat shape
create_cipher_simple(sub, payload, fails) ==
    Create("create_simple", sub, payload, NULL, fails)

\* PUT /api/ciphers/{id}
update_cipher(sub, id, payload, fails) ==
    /\ pc = "idle"
    /\ clock < MaxClock
    /\ LET existing == SelectCipher(db.ciphers, id, sub)
       IN  IF fails
           THEN /\ lastResult' = Result("StorageError", NULL)
                /\ UNCHANGED db
           ELSE IF existing = {}
           THEN /\ lastResult' = Result("NotFound", NULL)
                /\ UNCHANGED db
           ELSE LET existing_cipher == CHOOSE c \in existing : TRUE
                    cipher == [NewCipher(id, sub, payload, clock, NULL)
                                  EXCEPT !.created_at = existing_cipher.created_at]
                IN  /\ db' = [db EXCEPT !.ciphers = UpdateRows(@, id, sub, cipher)]
                    /\ lastResult' = Result("Ok", Serialize(cipher))
    /\ req' = [op |-> "update", sub |-> sub, id |-> id, payload |-> payload,
               now |-> clock]
    /\ clock' = clock + 1
    /\ db0' = db
    /\ batchLog' = <<>>
    /\ UNCHANGED <<uuid, pc, stmts, k, chain>>

\* PUT /api/ciphers/{id}/delete
delete_cipher(sub, id, fails) ==
    /\ pc = "idle"
    /\ IF fails
       THEN /\ lastResult' = Result("StorageError", NULL)
            /\ UNCHANGED db
       ELSE /\ lastResult' = Result("Ok", NULL)
            /\ db' = [db EXCEPT !.ciphers = DeleteRows(@, id, sub)]
    /\ req' = [op |-> "delete", sub |-> sub, id |-> id]
    /\ db0' = db
    /\ batchLog' = <<>>
    /\ UNCHANGED <<clock, uuid, pc, stmts, k, chain>>

\* ------------------------------------------------------------------ inputs
\* CipherRequestData as decoded from the client's JSON.
LoginRequest(folder_id) ==
    [type |-> 1, folder_id |-> folder_id, organization_id |-> NULL, name |-> "n1",
     notes |-> NULL, favorite |-> FALSE, login |-> "L1", card |-> NULL,
     identity |-> NULL, secure_note |-> NULL, fields |-> NULL,
     password_history |-> NULL, reprompt |-> NULL]

NoteRequest(folder_id) ==
    [type |-> 2, folder_id |-> folder_id, organization_id |-> NULL, name |-> "n2",
     notes |-> "t2", favorite |-> TRUE, login |-> NULL, card |-> "C2",
     identity |-> NULL, secure_note |-> "S2", fields |-> NULL,
     password_history |-> NULL, reprompt |-> "1"]

\* An item of ImportRequest.ciphers: the request data plus encryptedFor.
ImportCipher(encrypted_for, r) == r @@ [encrypted_for |-> encrypted_for]

ImportFolder(id) == [id |-> id, name |-> "fn"]

Relationship(key, value) == [key |-> key, value |-> value]

ImportRequest(folders, ciphers, rels) ==
    [folders |-> folders, ciphers |-> ciphers, folder_relationships |-> rels]

VaultCipherRequests == {LoginRequest(NULL), NoteRequest("f1")}

VaultCreateRequests == {[cipher |-> NoteRequest("f1"), collection_ids |-> <<"c1">>]}

VaultSimpleRequests == {LoginRequest(NULL)}

VaultImports ==
    {ImportRequest(fs, cs, rels) :
        fs \in {<<>>, <<ImportFolder("f1")>>},
        cs \in {<<ImportCipher("u1", LoginRequest(NULL))>>},
        rels \in {<<Relationship(0, 0)>>}}

CipherIds == 1..MaxId

\* ------------------------------------------------------------ specifications
Init ==
    /\ db = EmptyDb
    /\ clock = 0
    /\ uuid = 0
    /\ pc = "idle"
    /\ req = [op |-> "none", sub |-> NULL]
    /\ stmts = <<>>
    /\ k = 0
    /\ batchLog = <<>>
    /\ db0 = EmptyDb
    /\ chain = <<>>
    /\ lastResult = Result("None", NULL)

CreateCipher == \E sub \in Users, p \in VaultCreateRequests, fails \in BOOLEAN :
                    create_cipher(sub, p, fails)

CreateCipherSimple == \E sub \in Users, p \in VaultSimpleRequests, fails \in BOOLEAN :
                          create_cipher_simple(sub, p, fails)

UpdateCipher == \E sub \in Users, id \in CipherIds, p \in VaultCipherRequests,
                   fails \in BOOLEAN : update_cipher(sub, id, p, fails)

DeleteCipher == \E sub \in Users, id \in CipherIds, fails \in BOOLEAN :
                    delete_cipher(sub, id, fails)

VaultImport == \E sub \in Users, p \in VaultImports : ImportStart(sub, p, NULL)

\* The vault: any sequence of single-item and import requests of two users.
Next ==
    \/ CreateCipher
    \/ CreateCipherSimple
    \/ UpdateCipher
    \/ DeleteCipher
    \/ VaultImport
    \/ ExecChunk
    \/ ExecChunkFail
    \/ FoldersDone
    \/ ImportDone

Spec == Init /\ [][Next]_vars

\* One user imports a batch into an empty vault and may submit it again.
\* The folder at position i carries the i-th id of FolderIdCycle, the item at
\* position i the i-th folderId of ItemFolderCycle; encryptedFor, the
\* relationships and IMPORT_BATCH_SIZE are free.
Importer == "u1"

FolderIdCycle == <<"f1", "f2">>

ItemFolderCycle == <<"f0", NULL>>

Cycle(s, i) == s[((i - 1) % Len(s)) + 1]

ImportFolders == {[i \in 1..n |-> ImportFolder(Cycle(FolderIdCycle, i))] : n \in 0..MaxFolders}

ImportItems ==
    UNION {{[i \in 1..n |-> ImportCipher(e[i], LoginRequest(Cycle(ItemFolderCycle, i)))] :
               e \in [1..n -> Users]} : n \in 0..MaxItems}

ImportRelationships ==
    SeqUpTo({Relationship(key, value) : key \in 0..1, value \in 0..1}, MaxRels)

ImportEnv == {NULL, "0", "1"}

FirstImport ==
    /\ req.op = "none"
    /\ \E fs \in ImportFolders, cs \in ImportItems, rels \in ImportRelationships,
          envv \in ImportEnv :
          ImportStart(Importer, ImportRequest(fs, cs, rels), envv)

NextImport ==
    \/ FirstImport
    \/ ImportRetry
    \/ ExecChunk
    \/ ExecChunkFail
    \/ FoldersDone
    \/ ImportDone

SpecImport == Init /\ [][NextImport]_vars

\* execute_in_batches on up to MaxOps statements: an import of folders only.
BatchFolderIds == {"f1", "f2", "f3"}

BatchFolders == {[i \in DOMAIN ids |-> ImportFolder(ids[i])] :
                    ids \in SeqUpTo(BatchFolderIds, MaxOps)}

BatchImport ==
    /\ req.op = "none"
    /\ \E fs \in BatchFolders, size \in 0..MaxBatchSize :
          ImportStart(Importer, ImportRequest(fs, <<>>, <<>>), UsizeText[size + 1])

NextBatch ==
    \/ BatchImport
    \/ ExecChunk
    \/ ExecChunkFail
    \/ FoldersDone
    \/ ImportDone

SpecBatch == Init /\ [][NextBatch]_vars

\* --------------------------------------------------------- the wire codec
\* A JSON object on the wire is a function from its keys to the JSON text of
\* their values: "true", "false", "null", the decimal texts of UsizeText, the
\* negative integer "-1" and the float "0.0"; any other text is a JSON string.
BoolTexts == {"true", "false"}

NegativeTexts == {"-1"}

FloatTexts == {"0.0"}

IsString(t) ==
    /\ t \notin BoolTexts \cup NegativeTexts \cup FloatTexts \cup {NULL}
    /\ ~ParseUsize(t).ok

\* i32: a JSON integer; a float, even one without a fraction, is a type error.
IsI32(t) == ParseUsize(t).ok \/ t \in NegativeTexts

\* serde_json::Value takes any JSON value.
IsValue(t) == TRUE

\* Whether the JSON text t is a value of the Rust type `type`.
IsT(type, t) ==
    IF type = "String" THEN IsString(t)
    ELSE IF type = "i32" THEN IsI32(t)
    ELSE IsValue(t)

Decoded(ok, value) == [ok |-> ok, value |-> value]

\* deserialize_bool_from_int: deserialize_any with a visitor that has
\* visit_bool and visit_u64 only; every other JSON type is an invalid type.
deserialize_bool_from_int(t) ==
    IF t \in BoolTexts THEN Decoded(TRUE, t = "true")
    ELSE IF ParseUsize(t).ok
         THEN IF ParseUsize(t).value = 0 THEN Decoded(TRUE, FALSE)
              ELSE IF ParseUsize(t).value = 1 THEN Decoded(TRUE, TRUE)
              ELSE Decoded(FALSE, FALSE)
    ELSE Decoded(FALSE, FALSE)

\* serde's Deserialize for bool: a JSON boolean and nothing else.
deserialize_bool(t) ==
    IF t \in BoolTexts THEN Decoded(TRUE, t = "true") ELSE Decoded(FALSE, FALSE)

\* A field of type T without a default: the key must be present.
Required(w, key, type) ==
    IF key \in DOMAIN w /\ IsT(type, w[key]) THEN Decoded(TRUE, w[key])
    ELSE Decoded(FALSE, NULL)

\* A field of type Option<T>: a missing key and null are None.
Optional(w, key, type) ==
    IF key \notin DOMAIN w THEN Decoded(TRUE, NULL)
    ELSE IF w[key] = NULL THEN Decoded(TRUE, NULL)
    ELSE IF IsT(type, w[key]) THEN Decoded(TRUE, w[key])
    ELSE Decoded(FALSE, NULL)

\* #[serde(default)] favorite: bool of CipherRequestData.
RequestFavorite(w) ==
    IF "favorite" \in DOMAIN w THEN deserialize_bool(w["favorite"])
    ELSE Decoded(TRUE, FALSE)

\* r#type: i32
RequestType(w) ==
    IF "type" \in DOMAIN w /\ IsI32(w["type"])
    THEN Decoded(TRUE, IF ParseUsize(w["type"]).ok THEN ParseUsize(w["type"]).value
                       ELSE -1)
    ELSE Decoded(FALSE, 0)

\* Deserialize of CipherRequestData (camelCase keys, unknown keys ignored): the
\* body of PUT /api/ciphers/{id} and POST /api/ciphers, and the `cipher` of
\* POST /api/ciphers/create.
DecodeCipherRequestData(w) ==
    LET type == RequestType(w)
        folder_id == Optional(w, "folderId", "String")
        organization_id == Optional(w, "organizationId", "String")
        name == Required(w, "name", "String")
        notes == Optional(w, "notes", "String")
        favorite == RequestFavorite(w)
        login == Optional(w, "login", "Value")
        card == Optional(w, "card", "Value")
        identity == Optional(w, "identity", "Value")
        secure_note == Optional(w, "secureNote", "Value")
        fields == Optional(w, "fields", "Value")
        password_history == Optional(w, "passwordHistory", "Value")
        reprompt == Optional(w, "reprompt", "i32")
        last_known_revision_date == Optional(w, "lastKnownRevisionDate", "String")
        key == Optional(w, "key", "String")
    IN  IF /\ type.ok /\ folder_id.ok /\ organization_id.ok /\ name.ok /\ notes.ok
           /\ favorite.ok /\ login.ok /\ card.ok /\ identity.ok /\ secure_note.ok
           /\ fields.ok /\ password_history.ok /\ reprompt.ok
           /\ last_known_revision_date.ok /\ key.ok
        THEN Decoded(TRUE,
                 [type |-> type.value, folder_id |-> folder_id.value,
                  organization_id |-> organization_id.value, name |-> name.value,
                  notes |-> notes.value, favorite |-> favorite.value,
                  login |-> login.value, card |-> card.value,
                  identity |-> identity.value, secure_note |-> secure_note.value,
                  fields |-> fields.value,
                  password_history |-> password_history.value,
                  reprompt |-> reprompt.value])
        ELSE Decoded(FALSE, NULL)

\* Deserialize of CreateCipherRequest: `cipher` (alias `Cipher`) is required,
\* collectionIds (alias `CollectionIds`) defaults to the empty list; a key
\* given under both spellings is a duplicate field.
DecodeCreateCipherRequest(w) ==
    LET cipherKeys == DOMAIN w \cap {"cipher", "Cipher"}
        idsKeys == DOMAIN w \cap {"collectionIds", "CollectionIds"}
        cipher == IF Cardinality(cipherKeys) = 1
                  THEN DecodeCipherRequestData(w[CHOOSE key \in cipherKeys : TRUE])
                  ELSE Decoded(FALSE, NULL)
    IN  IF cipher.ok /\ Cardinality(idsKeys) <= 1
        THEN Decoded(TRUE,
                 [cipher |-> cipher.value,
                  collection_ids |-> IF idsKeys = {} THEN <<>>
                                     ELSE w[CHOOSE key \in idsKeys : TRUE]])
        ELSE Decoded(FALSE, NULL)

\* Deserialize of Cipher, the struct whose boolean fields carry
\* deserialize_with = "deserialize_bool_from_int": `favorite` has no default,
\* `edit` defaults to true.
DecodeCipher(w) ==
    LET id == Required(w, "id", "String")
        type == RequestType(w)
        data == Required(w, "data", "Value")
        favorite == IF "favorite" \in DOMAIN w
                    THEN deserialize_bool_from_int(w["favorite"])
                    ELSE Decoded(FALSE, FALSE)
        edit == IF "edit" \in DOMAIN w THEN deserialize_bool_from_int(w["edit"])
                ELSE Decoded(TRUE, TRUE)
        created_at == Required(w, "createdAt", "String")
        updated_at == Required(w, "updatedAt", "String")
    IN  IF /\ id.ok /\ type.ok /\ data.ok /\ favorite.ok /\ edit.ok
           /\ created_at.ok /\ updated_at.ok
        THEN Decoded(TRUE,
                 [id |-> id.value, type |-> type.value, data |-> data.value,
                  favorite |-> favorite.value, edit |-> edit.value,
                  created_at |-> created_at.value, updated_at |-> updated_at.value])
        ELSE Decoded(FALSE, NULL)

\* The JSON text of a serialized Cipher as the Json responder writes it: the
\* integer `type` in decimal, the boolean `favorite` as true/false.
JsonText(body) ==
    [type |-> UsizeText[body.type + 1],
     favorite |-> IF body.favorite THEN "true" ELSE "false"] @@ body

\* Bodies a client may send. Absent marks a key the object does not have.
Absent == "<absent>"

JsonObject(f) == [key \in {x \in DOMAIN f : f[x] # Absent} |-> f[key]]

WireFavorite == {Absent, "true", "false", "0", "1", "2", "-1", NULL, "yes"}

WireReprompt == {Absent, NULL, "0", "1", "0.0"}

WireCipherBodies ==
    {JsonObject([type |-> type, name |-> name, notes |-> notes,
                 favorite |-> favorite, reprompt |-> reprompt]) :
        type \in {"1", "2"}, name \in {Absent, "n1"}, notes \in {Absent, NULL, "t1"},
        favorite \in WireFavorite, reprompt \in WireReprompt}

WireCreateBodies ==
    {(key :> body) @@ ids :
        key \in {"cipher", "Cipher"}, body \in WireCipherBodies,
        ids \in {<<>>, [collectionIds |-> <<"c1">>]}}

WireStoredBodies ==
    {body @@ [id |-> "i1", data |-> "D1", createdAt |-> "d0", updatedAt |-> "d0"] :
        body \in WireCipherBodies}

\* A request body has arrived and the Json extractor has not run yet.
InitWire ==
    /\ db = EmptyDb
    /\ clock = 0
    /\ uuid = 0
    /\ pc = "idle"
    /\ req \in {[op |-> "received", sub |-> Importer, shape |-> "CipherRequestData",
                  wire |-> w] : w \in WireCipherBodies}
              \cup {[op |-> "received", sub |-> Importer,
                     shape |-> "CreateCipherRequest", wire |-> w] :
                        w \in WireCreateBodies}
              \cup {[op |-> "received", sub |-> Importer, shape |-> "Cipher",
                     wire |-> w] : w \in WireStoredBodies}
    /\ stmts = <<>>
    /\ k = 0
    /\ batchLog = <<>>
    /\ db0 = EmptyDb
    /\ chain = <<>>
    /\ lastResult = Result("None", NULL)

\* The extractor: Ok with the decoded value, or the rejection of the request.
Extract(shape, d) ==
    /\ req.op = "received"
    /\ req.shape = shape
    /\ req' = [req EXCEPT !.op = "decode"]
    /\ lastResult' = IF d.ok THEN Result("Ok", d.value)
                     ELSE Result("DecodeError", NULL)
    /\ UNCHANGED <<db, clock, uuid, pc, stmts, k, batchLog, db0, chain>>

\* Json<CipherRequestData>: update_cipher and create_cipher_simple.
ExtractCipherRequestData ==
    Extract("CipherRequestData", DecodeCipherRequestData(req.wire))

\* Json<CreateCipherRequest>: create_cipher.
ExtractCreateCipherRequest ==
    Extract("CreateCipherRequest", DecodeCreateCipherRequest(req.wire))

\* serde_json::from_value::<Cipher>
ExtractCipher == Extract("Cipher", DecodeCipher(req.wire))

NextWire ==
    \/ ExtractCipherRequestData
    \/ ExtractCreateCipherRequest
    \/ ExtractCipher

SpecWire == InitWire /\ [][NextWire]_vars

\* Encoding of a stored row for the client: Into<Cipher>, then Serialize.
CodecTokens ==
    [login |-> "L1", secureNote |-> "S1", card |-> "C1", identity |-> "I1",
     reprompt |-> "1", notes |-> "t1", fields |-> "F1", passwordHistory |-> "H1"]

CodecData ==
    {[t |-> "Object", o |-> [key \in keys \cup {"name"} |->
                                IF key = "name" THEN "n1" ELSE CodecTokens[key]]] :
        keys \in SUBSET (DOMAIN CodecTokens)}
    \cup {[t |-> "Invalid"]}

CodecRows ==
    {[id |-> 1, user_id |-> "u1", organization_id |-> NULL, type |-> type,
      data |-> data, favorite |-> 0, folder_id |-> NULL, deleted_at |-> NULL,
      created_at |-> 0, updated_at |-> 0] :
        type \in 0..5, data \in CodecData}

InitCodec ==
    /\ db \in {[folders |-> {}, ciphers |-> {row}] : row \in CodecRows}
    /\ clock = 1
    /\ uuid = 1
    /\ pc = "idle"
    /\ req = [op |-> "none", sub |-> NULL]
    /\ stmts = <<>>
    /\ k = 0
    /\ batchLog = <<>>
    /\ db0 = EmptyDb
    /\ chain = <<>>
    /\ lastResult = Result("None", NULL)

EncodeStored ==
    /\ req.op = "none"
    /\ \E row \in db.ciphers :
          /\ req' = [op |-> "encode", sub |-> row.user_id, row |-> row]
          /\ lastResult' = Result("Ok", Serialize(IntoCipher(row)))
    /\ UNCHANGED <<db, clock, uuid, pc, stmts, k, batchLog, db0, chain>>

\* The client sends the encoding it received back as a CipherRequestData body.
DecodeEncoded ==
    /\ req.op = "encode"
    /\ LET d == DecodeCipherRequestData(JsonText(lastResult.body))
       IN  /\ req' = [req EXCEPT !.op = "roundtrip"]
           /\ lastResult' = IF d.ok THEN Result("Ok", d.value)
                            ELSE Result("DecodeError", NULL)
    /\ UNCHANGED <<db, clock, uuid, pc, stmts, k, batchLog, db0, chain>>

NextCodec ==
    \/ EncodeStored
    \/ DecodeEncoded

SpecCodec == InitCodec /\ [][NextCodec]_vars

\* ------------------------------------------------------------------ claims
Max(S) == CHOOSE x \in S : \A y \in S : y <= x

ImportFoldersIn == req.payload.folders
ImportItemsIn == req.payload.ciphers
ImportRelsIn == req.payload.folder_relationships

HasForeignItem ==
    \E i \in DOMAIN ImportItemsIn : ImportItemsIn[i].encrypted_for # req.sub

\* The cipher statements of the request are prepared: stmts[i] inserts the item
\* at input position i.
ItemsPrepared ==
    /\ req.op = "import"
    /\ Len(stmts) = Len(ImportItemsIn)
    /\ \A i \in DOMAIN stmts : stmts[i].table = "ciphers"

StoredItem(i) == {row \in db.ciphers : row.id = stmts[i].row.id}

\* Positions in folder_relationships that name item i (one-based) and a folder
\* of the payload.
Hits(i) ==
    {j \in DOMAIN ImportRelsIn :
        /\ ImportRelsIn[j].key = i - 1
        /\ ImportRelsIn[j].value + 1 \in DOMAIN ImportFoldersIn}

\* The statements of the logged db.batch() calls L, in order.
RECURSIVE OpsOf(_)
OpsOf(L) == IF L = <<>> THEN <<>> ELSE Head(L).ops \o OpsOf(Tail(L))

FolderLog == SelectSeq(batchLog, LAMBDA e : e.phase = "folders")

\* C1: an import holding an item encrypted for another principal fails and
\* persists nothing: the tables stay what they were when the request arrived.
C1_ForeignItemPersistsNothing ==
    (req.op = "import" /\ HasForeignItem) =>
        /\ db = db0
        /\ pc = "idle" => lastResult.status # "Ok"

\* C2: submitting the same batch a second time succeeds and leaves the tables
\* as the first submission left them.
C2_ImportIdempotent ==
    (/\ req.op = "import"
     /\ pc = "idle"
     /\ Len(chain) >= 2
     /\ chain[Len(chain) - 1] = "Ok"
     /\ chain[Len(chain)] # "StorageError") =>
        /\ chain[Len(chain)] = "Ok"
        /\ db = db0

\* C3: with batch_size > 0, execute_in_batches submits the statements as
\* consecutive chunks of at most batch_size, in input order, ceil(n/batch_size)
\* of them when none fails; a failed chunk is the last one submitted, the
\* chunks before it stay applied and the failure is the request's result.
C3_ChunkedExecution ==
    (req.op = "import" /\ req.batch_size > 0) =>
        LET size == req.batch_size
            n == Len(ImportFoldersIn)
            L == FolderLog
            applied == Cardinality({i \in DOMAIN L : L[i].ok})
        IN  /\ \A i \in DOMAIN L :
                  /\ Len(L[i].ops) = Min(size, n - (i - 1) * size)
                  /\ Len(L[i].ops) >= 1
                  /\ \A j \in DOMAIN L[i].ops :
                        L[i].ops[j].row.id = ImportFoldersIn[(i - 1) * size + j].id
                  /\ i < Len(L) => L[i].ok
            /\ {f.id : f \in db.folders} =
                  {f.id : f \in db0.folders}
                  \cup {ImportFoldersIn[j].id : j \in 1..Min(n, applied * size)}
            /\ (pc = "ciphers" \/ (pc = "idle" /\ lastResult.status = "Ok")) =>
                  /\ Len(L) = (n + size - 1) \div size
                  /\ applied = Len(L)
            /\ (L # <<>> /\ ~L[Len(L)].ok) =>
                  /\ pc = "idle"
                  /\ lastResult.status = "StorageError"

C3_Witness ==
    /\ req.op = "import"
    /\ req.batch_size = 2
    /\ Len(ImportFoldersIn) = 5
    /\ pc = "idle"
    /\ lastResult.status = "Ok"
    /\ Len(FolderLog) = 3

\* C4: a cipher chunk is submitted only after every folder statement of the
\* request was in a folder chunk that succeeded; a failed folder chunk ends the
\* request with the failure and no cipher row is written.
C4_FoldersBeforeItems ==
    req.op = "import" =>
        \A i \in DOMAIN batchLog :
            /\ batchLog[i].phase = "ciphers" =>
                  LET before == {j \in 1..(i - 1) : batchLog[j].phase = "folders"}
                      sent == OpsOf(SelectSeq(SubSeq(batchLog, 1, i - 1),
                                              LAMBDA e : e.phase = "folders"))
                  IN  /\ \A j \in before : batchLog[j].ok
                      /\ [m \in DOMAIN sent |-> sent[m].row.id]
                            = [m \in DOMAIN ImportFoldersIn |-> ImportFoldersIn[m].id]
                      /\ \A f \in DOMAIN ImportFoldersIn :
                            \E row \in db.folders : row.id = ImportFoldersIn[f].id
            /\ (batchLog[i].phase = "folders" /\ ~batchLog[i].ok) =>
                  /\ i = Len(batchLog)
                  /\ pc = "idle"
                  /\ lastResult.status = "StorageError"
                  /\ db.ciphers = db0.ciphers

C4_Witness ==
    /\ req.op = "import"
    /\ Len(ImportFoldersIn) = 2
    /\ req.batch_size = 1
    /\ \E i \in DOMAIN batchLog : batchLog[i].phase = "ciphers" /\ batchLog[i].ok

\* C5 as claimed: every in-range relationship (itemIndex, folderIndex) leaves
\* the item stored with the id of the folder at folderIndex.
C5_EveryRelationshipApplied ==
    ItemsPrepared =>
        \A j \in DOMAIN ImportRelsIn :
            LET r == ImportRelsIn[j]
            IN  (InRange(r.key, ImportItemsIn) /\ InRange(r.value, ImportFoldersIn)) =>
                    \A row \in StoredItem(r.key + 1) :
                        row.folder_id = ImportFoldersIn[r.value + 1].id

\* C5 amended: an item is stored with the id of the folder named by the last
\* in-range relationship for its position, and with the folderId of the
\* payload when there is none.
C5_LastRelationshipApplied ==
    ItemsPrepared =>
        \A i \in DOMAIN ImportItemsIn :
            \A row \in StoredItem(i) :
                row.folder_id =
                    IF Hits(i) = {} THEN ImportItemsIn[i].folder_id
                    ELSE ImportFoldersIn[ImportRelsIn[Max(Hits(i))].value + 1].id

C5_Witness ==
    /\ ItemsPrepared
    /\ \E i \in DOMAIN ImportItemsIn :
          /\ Cardinality(Hits(i)) = 2
          /\ \E row \in StoredItem(i) : row.folder_id = "f2"
    /\ \E i \in DOMAIN ImportItemsIn :
          /\ Hits(i) = {}
          /\ \E row \in StoredItem(i) : row.folder_id = "f0"

\* The relationships of the payload with the out-of-range ones removed.
InRangeRels ==
    SelectSeq(ImportRelsIn,
              LAMBDA r : InRange(r.key, ImportItemsIn) /\ InRange(r.value, ImportFoldersIn))

\* C6: when every item passes the ownership check and no storage call fails,
\* the import succeeds and stores every item; an out-of-range relationship
\* changes no folderId: an item named by no in-range relationship keeps the
\* folderId of the payload, any other item has a folder named for it by an
\* in-range relationship.
C6_OutOfRangeIgnored ==
    (/\ req.op = "import"
     /\ pc = "idle"
     /\ ~HasForeignItem
     /\ \A i \in DOMAIN batchLog : batchLog[i].ok) =>
        /\ lastResult.status = "Ok"
        /\ ItemsPrepared
        /\ Cardinality(db.ciphers) = Cardinality(db0.ciphers) + Len(ImportItemsIn)
        /\ \A i \in DOMAIN ImportItemsIn :
              /\ \E row \in StoredItem(i) : row.user_id = req.sub
              /\ \A row \in StoredItem(i) :
                    LET named == {j \in DOMAIN InRangeRels : InRangeRels[j].key = i - 1}
                    IN  IF named = {}
                        THEN row.folder_id = ImportItemsIn[i].folder_id
                        ELSE \E j \in named :
                                row.folder_id = ImportFoldersIn[InRangeRels[j].value + 1].id

C6_Witness ==
    /\ req.op = "import"
    /\ pc = "idle"
    /\ lastResult.status = "Ok"
    /\ Len(ImportItemsIn) = 1
    /\ Len(ImportFoldersIn) = 1
    /\ \E j \in DOMAIN ImportRelsIn :
          /\ ImportRelsIn[j].key = 0
          /\ ~InRange(ImportRelsIn[j].value, ImportFoldersIn)
    /\ \E j \in DOMAIN ImportRelsIn : ~InRange(ImportRelsIn[j].key, ImportItemsIn)
    /\ ItemsPrepared
    /\ \E row \in StoredItem(1) : row.folder_id = "f0"

RowsOf(d, q) ==
    [folders |-> {f \in d.folders : f.user_id = q},
     ciphers |-> {c \in d.ciphers : c.user_id = q}]

\* A step of update_cipher, of delete_cipher: the handler is one step.
UpdateStep == pc = "idle" /\ pc' = "idle" /\ req'.op = "update"
DeleteStep == pc = "idle" /\ pc' = "idle" /\ req'.op = "delete"

OwnsCipher(d, sub, id) == \E c \in d.ciphers : c.id = id /\ c.user_id = sub

\* C7: a step taken for principal P leaves every folder and cipher row of any
\* other principal as it was; update_cipher on an id P has no row for answers
\* NotFound (or the storage error) and writes nothing, delete_cipher on such
\* an id removes nothing.
C7_OtherPrincipalsUntouched ==
    [][/\ \A q \in Users : q # req'.sub => RowsOf(db', q) = RowsOf(db, q)
       /\ (UpdateStep /\ ~OwnsCipher(db, req'.sub, req'.id)) =>
              /\ lastResult'.status \in {"NotFound", "StorageError"}
              /\ db' = db
       /\ (DeleteStep /\ ~OwnsCipher(db, req'.sub, req'.id)) => db' = db]_vars

C7_Witness ==
    /\ req.op = "update"
    /\ lastResult.status = "NotFound"
    /\ \E c \in db.ciphers : c.id = req.id /\ c.user_id # req.sub
    /\ \E f \in db.folders : f.user_id # req.sub

\* C8: every stored cipher with a folder_id names a stored folder of the same
\* owner.
C8_FolderReferencesResolve ==
    \A c \in db.ciphers :
        c.folder_id # NULL =>
            \E f \in db.folders : f.id = c.folder_id /\ f.user_id = c.user_id

\* C9: update_cipher keeps id and created_at of every stored cipher; when it
\* succeeds, the row and the returned record carry the old id and created_at
\* and the time of the update as updated_at.
C9_UpdateKeepsIdentity ==
    [][UpdateStep =>
          /\ \A c \in db.ciphers :
                \E c2 \in db'.ciphers : c2.id = c.id /\ c2.created_at = c.created_at
          /\ Cardinality(db'.ciphers) = Cardinality(db.ciphers)
          /\ lastResult'.status = "Ok" =>
                \E c \in db.ciphers, c2 \in db'.ciphers :
                    /\ c.id = req'.id /\ c.user_id = req'.sub
                    /\ c2.id = c.id
                    /\ c2.created_at = c.created_at
                    /\ c2.updated_at = clock
                    /\ lastResult'.body.id = c.id
                    /\ lastResult'.body.creationDate = c.created_at
                    /\ lastResult'.body.revisionDate = clock]_vars

C9_Witness ==
    /\ req.op = "update"
    /\ lastResult.status = "Ok"
    /\ \E c \in db.ciphers :
          /\ c.id = req.id
          /\ c.created_at = 0
          /\ c.updated_at = 2
          /\ lastResult.body.creationDate = 0
          /\ lastResult.body.revisionDate = 2

\* Spec section 3: 1 = Login, 2 = SecureNote, 3 = Card, 4 = Identity.
KindKey == <<"login", "secureNote", "card", "identity">>

\* C10: for kind 1..4 and a stored payload that is an object, the encoding has
\* all four keys; the one named for the kind carries the stored sub-object
\* (null when the payload has none) and the other three are null.
C10_KindSelectsPayload ==
    (req.op = "encode" /\ req.row.type \in 1..4 /\ req.row.data.t = "Object") =>
        \A i \in DOMAIN KindKey :
            /\ KindKey[i] \in DOMAIN lastResult.body
            /\ lastResult.body[KindKey[i]] =
                  IF i = req.row.type /\ KindKey[i] \in DOMAIN req.row.data.o
                  THEN req.row.data.o[KindKey[i]]
                  ELSE NULL

C10_Witness ==
    /\ req.op = "encode"
    /\ req.row.type = 3
    /\ req.row.data.t = "Object"
    /\ {"login", "card", "identity", "secureNote"} \subseteq DOMAIN req.row.data.o
    /\ lastResult.body.card = "C1"
    /\ lastResult.body.login = NULL

\* C13 as claimed: an import holding an item encrypted for another principal
\* ends with the Unauthorized error kind (a storage failure of the folder
\* chunks, which comes before the check, set aside).
C13_ForeignItemUnauthorized ==
    (/\ req.op = "import"
     /\ pc = "idle"
     /\ HasForeignItem
     /\ lastResult.status # "StorageError") =>
        lastResult.status = "Unauthorized"

\* C14: with batch_size = 0 and n >= 1 statements, execute_in_batches makes
\* exactly one db.batch() call holding all n statements in input order, and the
\* table gains all of them or none; with no statement it makes no call and
\* returns Ok.
C14_ZeroChunkSizeOneBatch ==
    req.op = "import" =>
        LET n == Len(ImportFoldersIn)
            L == FolderLog
        IN  /\ n = 0 =>
                  /\ L = <<>>
                  /\ lastResult.status \in {"Pending", "Ok"}
            /\ (n >= 1 /\ req.batch_size = 0) =>
                  /\ Len(L) <= 1
                  /\ \A i \in DOMAIN L :
                        [j \in DOMAIN L[i].ops |-> L[i].ops[j].row.id]
                            = [j \in DOMAIN ImportFoldersIn |-> ImportFoldersIn[j].id]
                  /\ {f.id : f \in db.folders} =
                        {f.id : f \in db0.folders}
                        \cup (IF L # <<>> /\ L[1].ok
                              THEN {ImportFoldersIn[j].id : j \in 1..n}
                              ELSE {})
                  /\ (pc = "ciphers" \/ (pc = "idle" /\ lastResult.status = "Ok")) =>
                        Len(L) = 1 /\ L[1].ok
                  /\ (L # <<>> /\ ~L[1].ok) =>
                        /\ pc = "idle"
                        /\ lastResult.status = "StorageError"
                        /\ db = db0

C14_Witness ==
    /\ req.op = "import"
    /\ req.batch_size = 0
    /\ Len(ImportFoldersIn) >= 3
    /\ pc = "idle"
    /\ lastResult.status = "Ok"
    /\ Len(FolderLog) = 1
    /\ Len(FolderLog[1].ops) = Len(ImportFoldersIn)
    /\ {f.id : f \in db.folders} =
          {ImportFoldersIn[j].id : j \in DOMAIN ImportFoldersIn}

\* C15 as claimed: the folder at input position i is stored under an id the
\* import generated, not the id the client sent, and that stored id is the
\* folder_id of every item whose last in-range relationship names position i.
C15_FreshFolderIds ==
    /\ (req.op = "import" /\ pc = "folders") =>
          \A i \in DOMAIN stmts : stmts[i].row.id # ImportFoldersIn[i].id
    /\ ItemsPrepared =>
          LET sent == OpsOf(FolderLog)
          IN  /\ Len(sent) = Len(ImportFoldersIn)
              /\ \A i \in DOMAIN sent : sent[i].row.id # ImportFoldersIn[i].id
              /\ \A j \in DOMAIN stmts :
                    Hits(j) # {} =>
                        stmts[j].row.folder_id =
                            sent[ImportRelsIn[Max(Hits(j))].value + 1].row.id

\* C16: every item is checked for encrypted_for = sub before the first cipher
\* chunk is submitted: when any item of the request fails the check, no cipher
\* chunk is ever submitted and no cipher row of the call is written, whatever
\* the batch size and the position of the offending item.
C16_CheckBeforeFirstItemChunk ==
    (req.op = "import" /\ HasForeignItem) =>
        /\ pc # "ciphers"
        /\ \A i \in DOMAIN batchLog : batchLog[i].phase # "ciphers"
        /\ db.ciphers = db0.ciphers
        /\ pc = "idle" => lastResult.status # "Ok"

C16_Witness ==
    /\ req.op = "import"
    /\ req.batch_size = 1
    /\ Len(ImportItemsIn) = 2
    /\ ImportItemsIn[1].encrypted_for = req.sub
    /\ ImportItemsIn[2].encrypted_for # req.sub
    /\ pc = "idle"
    /\ lastResult.status = "BadRequest"
    /\ db.ciphers = {}

\* C11 as claimed: in a request body whose other fields are well-formed,
\* favorite 1 and true decode to TRUE, favorite 0 and false decode to FALSE and
\* any other integer is a decode error, for the bodies of update and create
\* (CipherRequestData) and of create with collections (CreateCipherRequest).
WireItem ==
    IF req.shape = "CreateCipherRequest"
    THEN req.wire[CHOOSE key \in DOMAIN req.wire \cap {"cipher", "Cipher"} : TRUE]
    ELSE req.wire

DecodedItem ==
    IF req.shape = "CreateCipherRequest" THEN lastResult.body.cipher
    ELSE lastResult.body

WellFormedButFavorite(w) ==
    /\ "name" \in DOMAIN w
    /\ "reprompt" \in DOMAIN w => w["reprompt"] \notin FloatTexts

C11_BooleanCoercion ==
    (/\ req.op = "decode"
     /\ req.shape \in {"CipherRequestData", "CreateCipherRequest"}
     /\ WellFormedButFavorite(WireItem)
     /\ "favorite" \in DOMAIN WireItem) =>
        LET t == WireItem["favorite"]
        IN  /\ t \in {"1", "true"} =>
                  lastResult.status = "Ok" /\ DecodedItem.favorite = TRUE
            /\ t \in {"0", "false"} =>
                  lastResult.status = "Ok" /\ DecodedItem.favorite = FALSE
            /\ t \in {"2", "-1"} => lastResult.status = "DecodeError"

\* C12 as claimed: a stored payload x that is encoded for the client and decoded
\* again as a request body has the name, notes, fields, passwordHistory and
\* reprompt of x, a field absent in x being null after the round trip.
C12_RoundTrip ==
    (req.op = "roundtrip" /\ req.row.data.t = "Object") =>
        LET x == req.row.data.o
            y == lastResult.body
        IN  /\ lastResult.status = "Ok"
            /\ y.name = x["name"]
            /\ y.notes = GetOr(x, "notes", NULL)
            /\ y.fields = GetOr(x, "fields", NULL)
            /\ y.password_history = GetOr(x, "passwordHistory", NULL)
            /\ y.reprompt = GetOr(x, "reprompt", NULL)

====
